---- MODULE Spec2Model ----
(***************************************************************************)
(* Model of the button input subsystem of the badge firmware               *)
(* (src/main.py, class BadgeButtons): the pre-allocated array used as an   *)
(* event queue, the hard interrupt handler `pressed` that pushes           *)
(* (ticks, pin) pairs and schedules `dispatch`, and the main-context       *)
(* `dispatch` closure that pops entries inside an interrupt-disabled       *)
(* section, debounces them per pin and calls the registered handler.       *)
(*                                                                         *)
(* The platform (MicroPython) is modelled by what the code relies on:      *)
(*   - time.ticks_ms() is a free running millisecond counter reduced       *)
(*     modulo TICKS_PERIOD, time.ticks_diff is the ring difference;        *)
(*   - micropython.schedule appends a callback to a bounded pending list   *)
(*     (refusing when it is full) and the VM runs pending callbacks one    *)
(*     at a time from the main context, never nested;                      *)
(*   - a hard pin interrupt runs `pressed` to completion whenever          *)
(*     interrupts are enabled.                                             *)
(***************************************************************************)
EXTENDS Integers, Sequences, FiniteSets, TLC

\* ------------------------------------------------------------------------
\* Program constants
\* ------------------------------------------------------------------------
BUTTON_A == 12
BUTTON_B == 13
BUTTON_C == 14
BUTTON_UP == 15
BUTTON_DOWN == 11

BUTTONS == {BUTTON_A, BUTTON_B, BUTTON_C, BUTTON_UP, BUTTON_DOWN}

bounce_ms == 250

TICKS_PERIOD == 2^30

\* len(cards) in main()
len_cards == 3

\* ------------------------------------------------------------------------
\* Bounds of the model
\* ------------------------------------------------------------------------
\* capacity of the queue in entries (constructor argument queue_len)
queue_len == 2
\* number of interrupts (calls of pressed) in a behaviour
MaxPresses == 3
\* the same, in the specification of the wake-ups
MaxWakePresses == 4
\* capacity of the scheduler's list of pending callbacks
SchedDepth == 2
\* number of registry assignments / deletions in a behaviour
MaxRegistryOps == 2
\* number of interrupts in the specification of the application handlers
MaxAppPresses == 3

\* Inputs of the specifications: the pins whose buttons are pressed, the
\* milliseconds that pass between two readings of the clock and the value
\* of the counter at construction.
QueuePins == {BUTTON_A, BUTTON_B}
QueueDeltas == {0, 10}
QueueClocks == {0}
WakePins == {BUTTON_B}
WakeDeltas == {10, 250}

TimePins == {BUTTON_B}
TimeDeltas == {0, 10, 250, 290, 2^29}
TimeClocks == {TICKS_PERIOD - 10}

\* Registry: the buttons pressed (one without a handler), the key and the
\* handler assigned by the application at run time
RegistryPins == {BUTTON_A, BUTTON_B}
RegistryDeltas == {10, 250}
RegistryKeys == {BUTTON_B}
HandlerIds == {"clean"}

\* Application: the four buttons that main() gives a handler
AppPins == {BUTTON_UP, BUTTON_DOWN, BUTTON_B, BUTTON_C}
AppDeltas == {250}

\* The registry as main() leaves it: BUTTON_A has no handler
MainHandlers ==
    (BUTTON_UP :> "prior_card") @@ (BUTTON_DOWN :> "next_card") @@
    (BUTTON_B :> "toggle_qr") @@ (BUTTON_C :> "clean")

\* value of a local variable that is not assigned yet, and of a missing key
NoValue == 0 - 1

VARIABLES
    clock,        \* last value of the platform's millisecond counter
    epoch,        \* history: number of times the counter has wrapped
    irq_enabled,  \* interrupt state of the core
    queue,        \* array('I', [0] * (queue_len * 2))
    queue_pos,    \* index of the first free slot of queue
    last_ticks,   \* dict pin -> ticks of the last accepted press
    handlers,     \* self._handlers: dict pin -> handler
    sched,        \* number of pending (dispatch, None) scheduler entries
    frames,       \* stack of dispatch activations (locals and position)
    regops,       \* number of registry operations made so far
    card,         \* main(): index in cards of the card on display
    show_qr,      \* main(): whether the QR code of the card is shown
    attempts,     \* history: every call of pressed, in order
    drained,      \* history: every (ticks, pin) popped by dispatch, in order
    log,          \* history: every debounce decision, in order
    calls         \* history: every handler call, in order

vars == <<clock, epoch, irq_enabled, queue, queue_pos, last_ticks, handlers, sched,
          frames, regops, card, show_qr, attempts, drained, log, calls>>

\* ------------------------------------------------------------------------
\* Platform functions
\* ------------------------------------------------------------------------
\* time.ticks_ms(), d milliseconds after it returned c: the millisecond
\* counter wraps to 0 at TICKS_PERIOD
ticks_ms(c, d) == (c + d) % TICKS_PERIOD

\* number of times the counter wrapped during those d milliseconds
Wraps(c, d) == (c + d) \div TICKS_PERIOD

\* a plain subtraction of the two counter values
ticks_diff_Raw(a, b) == a - b

\* time.ticks_diff(a, b): signed ring difference in
\* -TICKS_PERIOD/2 .. TICKS_PERIOD/2 - 1
ticks_diff(a, b) ==
    ((a - b + TICKS_PERIOD \div 2) % TICKS_PERIOD) - TICKS_PERIOD \div 2

\* ------------------------------------------------------------------------
\* Helpers of the closures
\* ------------------------------------------------------------------------
\* len(queue)
QueueSize == queue_len * 2

\* a bound check that is off by one
HasRoom_OffByOne(pos) == pos <= QueueSize

\* pressed: `if queue_pos < len(queue)`
HasRoom(pos) == pos < QueueSize

\* a shift by one slot instead of one (ticks, pin) pair
ShiftQueue_ByOne(q) ==
    [i \in 1..Len(q) |-> IF i <= Len(q) - 1 THEN q[i + 1] ELSE q[i]]

\* dispatch: `queue[:-2] = queue[2:]`
ShiftQueue(q) ==
    [i \in 1..Len(q) |-> IF i <= Len(q) - 2 THEN q[i + 2] ELSE q[i]]

\* the comparison the wrong way round
Bounced_Inverted(ticks, last) == ticks_diff(ticks, last) >= bounce_ms

\* dispatch: `if diff < bounce_ms: continue`
Bounced(ticks, last) == ticks_diff(ticks, last) < bounce_ms

\* a request that is never recorded
Schedule_Lost(n) == n

\* micropython.schedule(dispatch, None): refused when the list is full
Schedule(n) == IF n < SchedDepth THEN n + 1 ELSE n

\* a scheduler that also runs a pending callback inside a running one
SchedulerUnlocked_Nested(fs) == Len(fs) < 2

\* the VM runs a pending callback only when no scheduled callback is running
SchedulerUnlocked(fs) == fs = <<>>

\* main(): next_card, `card = (card + 1) % len(cards)`
next_card(c) == (c + 1) % len_cards

\* a remainder that takes the sign of the dividend, as C's % does
prior_card_Truncated(c) ==
    IF c - 1 < 0 THEN 0 - ((1 - c) % len_cards) ELSE (c - 1) % len_cards

\* main(): prior_card, `card = (card - 1) % len(cards)` (Python's %
\* takes the sign of the divisor, as % does here)
prior_card(c) == (c - 1) % len_cards

\* main(): the value of card after the handler h has run
CardAfter(h, c) ==
    IF h = "prior_card" THEN prior_card(c)
    ELSE IF h = "next_card" THEN next_card(c)
    ELSE c

\* main(): the value of show_qr after the handler h has run
ShowQrAfter(h, s) ==
    IF h \in {"prior_card", "next_card"} THEN FALSE
    ELSE IF h = "toggle_qr" THEN ~s
    ELSE s

Top == frames[Len(frames)]

SetTop(f) == [frames EXCEPT ![Len(frames)] = f]

\* ------------------------------------------------------------------------
\* Histories
\* ------------------------------------------------------------------------
IsOk(a) == a.ok

\* the successfully pushed (ticks, pin) entries, in push order
pushed ==
    LET s == SelectSeq(attempts, IsOk)
    IN  [i \in 1..Len(s) |-> <<s[i].t, s[i].pin>>]

\* the (ticks, pin) entries of every call of pressed, in order
AttemptEntries == [i \in 1..Len(attempts) |-> <<attempts[i].t, attempts[i].pin>>]

\* the live entries of the queue, oldest first
QueueEntries ==
    [i \in 1..(queue_pos \div 2) |-> <<queue[2 * i - 1], queue[2 * i]>>]

\* a run of dispatch has started (the first run always pops an entry)
Started == ~(drained = <<>> /\ frames = <<>>)

\* every call of pressed so far was made before any dispatch started
AllBeforeDrain == \A i \in 1..Len(attempts) : attempts[i].before

\* the running dispatch has read the head of the queue and not yet
\* finished removing it
InPop == IF frames = <<>> THEN FALSE ELSE Top.pc \in {"shift", "dec"}

\* the running dispatch has found the queue empty and is leaving its loop
ReportedEmpty == IF frames = <<>> THEN FALSE ELSE Top.brk

\* the calls of pressed that pushed an entry; the i-th one pushed the
\* i-th entry that dispatch pops and decides on
okAttempts == SelectSeq(attempts, IsOk)

\* index in log of the last accepted event of log[i]'s pin before i, or 0
PrevAccepted(i) ==
    LET S == {j \in 1..(i - 1) :
                 log[j].pin = log[i].pin /\ log[j].verdict = "accept"}
    IN  IF S = {} THEN 0 ELSE CHOOSE j \in S : \A k \in S : k <= j

\* index in log of the last event of log[i]'s pin before i, or 0
PrevEvent(i) ==
    LET S == {j \in 1..(i - 1) : log[j].pin = log[i].pin}
    IN  IF S = {} THEN 0 ELSE CHOOSE j \in S : \A k \in S : k <= j

\* the i-th accepted-or-bounced event was pressed at least n (<= the ticks
\* period) milliseconds of real time after the j-th, j < i
ElapsedAtLeast(j, i, n) ==
    LET a  == okAttempts[j]
        b  == okAttempts[i]
        de == b.epoch - a.epoch
    IN  IF de = 0 THEN b.t - a.t >= n
        ELSE IF de = 1 THEN (TICKS_PERIOD - a.t) + b.t >= n
        ELSE TRUE

\* the counter wrapped exactly once between the j-th and the i-th event,
\* the j-th read within a quarter period before the wrap and the i-th
\* within a quarter period after it
WrappedBetween(j, i) ==
    /\ okAttempts[i].epoch = okAttempts[j].epoch + 1
    /\ okAttempts[j].t >= TICKS_PERIOD - TICKS_PERIOD \div 4
    /\ okAttempts[i].t < TICKS_PERIOD \div 4

\* real milliseconds between two such events
ElapsedAcrossWrap(j, i) == (TICKS_PERIOD - okAttempts[j].t) + okAttempts[i].t

\* the ticks of the last accepted event of pin p, or NoValue
LastAcceptedTicks(p) ==
    LET S == {j \in 1..Len(log) : log[j].pin = p /\ log[j].verdict = "accept"}
    IN  IF S = {} THEN NoValue
        ELSE log[CHOOSE j \in S : \A k \in S : k <= j].t

\* the indices in log of the events for which a handler was called
CalledEvents == {calls[c].ev : c \in 1..Len(calls)}

\* ------------------------------------------------------------------------
\* Initial state: BadgeButtons.__init__
\* ------------------------------------------------------------------------
Init(Clocks, Registry) ==
    /\ clock \in Clocks
    /\ epoch = 0
    /\ irq_enabled = TRUE
    /\ queue = [i \in 1..QueueSize |-> 0]
    /\ queue_pos = 0
    /\ last_ticks = <<>>
    /\ handlers = Registry
    /\ sched = 0
    /\ frames = <<>>
    /\ regops = 0
    /\ card = 0
    /\ show_qr = FALSE
    /\ attempts = <<>>
    /\ drained = <<>>
    /\ log = <<>>
    /\ calls = <<>>

\* ------------------------------------------------------------------------
\* Interrupt context
\* ------------------------------------------------------------------------
\* pressed(btn): the hard interrupt handler of the pin `pin`, fired d
\* milliseconds after the previous reading of the clock.  It runs to
\* completion, and only while interrupts are enabled.
pressed(pin, d) ==
    /\ irq_enabled
    /\ LET t == ticks_ms(clock, d)
           e == epoch + Wraps(clock, d)
       IN  /\ clock' = t
           /\ epoch' = e
           /\ IF HasRoom(queue_pos)
              THEN /\ queue' = [queue EXCEPT ![queue_pos + 1] = t,
                                             ![queue_pos + 2] = pin]
                   /\ queue_pos' = queue_pos + 2
                   /\ sched' = Schedule(sched)
              ELSE UNCHANGED <<queue, queue_pos, sched>>
           /\ attempts' = Append(attempts,
                  [t |-> t, pin |-> pin, epoch |-> e, ok |-> HasRoom(queue_pos),
                   before |-> ~Started,
                   refused |-> HasRoom(queue_pos) /\ Schedule(sched) = sched])
    /\ UNCHANGED <<card, show_qr, irq_enabled, last_ticks, handlers, frames,
                   regops, drained, log, calls>>

\* ------------------------------------------------------------------------
\* Main context
\* ------------------------------------------------------------------------
\* The VM takes a pending (dispatch, None) entry and calls dispatch(None).
RunScheduled ==
    /\ sched > 0
    /\ SchedulerUnlocked(frames)
    /\ sched' = sched - 1
    /\ frames' = Append(frames, [pc |-> "top", ticks |-> NoValue,
                                 pin |-> NoValue, state |-> TRUE,
                                 brk |-> FALSE, handler |-> "none"])
    /\ UNCHANGED <<card, show_qr, clock, epoch, irq_enabled, queue,
                   queue_pos, last_ticks, handlers, regops, attempts,
                   drained, log, calls>>

\* the critical section entered without disabling the interrupts
DisableIrq_Forgotten ==
    /\ frames # <<>>
    /\ Top.pc = "top"
    /\ frames' = SetTop([Top EXCEPT !.pc = "try", !.state = irq_enabled])
    /\ UNCHANGED <<card, show_qr, clock, epoch, irq_enabled, queue,
                   queue_pos, last_ticks, handlers, sched, regops, attempts,
                   drained, log, calls>>

\* dispatch: `state = machine.disable_irq()`
DisableIrq ==
    /\ frames # <<>>
    /\ Top.pc = "top"
    /\ frames' = SetTop([Top EXCEPT !.pc = "try", !.state = irq_enabled])
    /\ irq_enabled' = FALSE
    /\ UNCHANGED <<card, show_qr, clock, epoch, queue, queue_pos,
                   last_ticks, handlers, sched, regops, attempts, drained,
                   log, calls>>

\* the test the wrong way round: `if queue_pos: break`
CheckEmpty_Inverted ==
    /\ frames # <<>>
    /\ Top.pc = "try"
    /\ IF queue_pos # 0
       THEN frames' = SetTop([Top EXCEPT !.pc = "finally", !.brk = TRUE])
       ELSE frames' = SetTop([Top EXCEPT !.pc = "read"])
    /\ UNCHANGED <<card, show_qr, clock, epoch, irq_enabled, queue,
                   queue_pos, last_ticks, handlers, sched, regops, attempts,
                   drained, log, calls>>

\* dispatch: `if not queue_pos: break` (the break first runs the finally)
CheckEmpty ==
    /\ frames # <<>>
    /\ Top.pc = "try"
    /\ IF queue_pos = 0
       THEN frames' = SetTop([Top EXCEPT !.pc = "finally", !.brk = TRUE])
       ELSE frames' = SetTop([Top EXCEPT !.pc = "read"])
    /\ UNCHANGED <<card, show_qr, clock, epoch, irq_enabled, queue,
                   queue_pos, last_ticks, handlers, sched, regops, attempts,
                   drained, log, calls>>

\* dispatch: `ticks = queue[0]; pin = queue[1]`
ReadHead ==
    /\ frames # <<>>
    /\ Top.pc = "read"
    /\ frames' = SetTop([Top EXCEPT !.pc = "shift", !.ticks = queue[1],
                                    !.pin = queue[2]])
    /\ drained' = Append(drained, <<queue[1], queue[2]>>)
    /\ UNCHANGED <<card, show_qr, clock, epoch, irq_enabled, queue,
                   queue_pos, last_ticks, handlers, sched, regops, attempts,
                   log, calls>>

\* dispatch: `queue[:-2] = queue[2:]`
Shift ==
    /\ frames # <<>>
    /\ Top.pc = "shift"
    /\ frames' = SetTop([Top EXCEPT !.pc = "dec"])
    /\ queue' = ShiftQueue(queue)
    /\ UNCHANGED <<card, show_qr, clock, epoch, irq_enabled, queue_pos,
                   last_ticks, handlers, sched, regops, attempts, drained,
                   log, calls>>

\* dispatch: `queue_pos -= 2`
Decrement ==
    /\ frames # <<>>
    /\ Top.pc = "dec"
    /\ frames' = SetTop([Top EXCEPT !.pc = "finally"])
    /\ queue_pos' = queue_pos - 2
    /\ UNCHANGED <<card, show_qr, clock, epoch, irq_enabled, queue,
                   last_ticks, handlers, sched, regops, attempts, drained,
                   log, calls>>

\* enable_irq placed after the try block instead of in a finally clause:
\* the break jumps over it
EnableIrq_NotOnBreak ==
    /\ frames # <<>>
    /\ Top.pc = "finally"
    /\ irq_enabled' = IF Top.brk THEN irq_enabled ELSE Top.state
    /\ frames' = SetTop([Top EXCEPT
                            !.pc = IF Top.brk THEN "exit" ELSE "debounce"])
    /\ UNCHANGED <<card, show_qr, clock, epoch, queue, queue_pos,
                   last_ticks, handlers, sched, regops, attempts, drained,
                   log, calls>>

\* dispatch: `finally: machine.enable_irq(state)`; then either the break
\* leaves the loop or the debounce code follows
EnableIrq ==
    /\ frames # <<>>
    /\ Top.pc = "finally"
    /\ irq_enabled' = Top.state
    /\ frames' = SetTop([Top EXCEPT
                            !.pc = IF Top.brk THEN "exit" ELSE "debounce"])
    /\ UNCHANGED <<card, show_qr, clock, epoch, queue, queue_pos,
                   last_ticks, handlers, sched, regops, attempts, drained,
                   log, calls>>

\* dispatch returns to the VM, which unlocks the scheduler
Return ==
    /\ frames # <<>>
    /\ Top.pc = "exit"
    /\ frames' = SubSeq(frames, 1, Len(frames) - 1)
    /\ UNCHANGED <<card, show_qr, clock, epoch, irq_enabled, queue,
                   queue_pos, last_ticks, handlers, sched, regops, attempts,
                   drained, log, calls>>

\* a debounce against the last accepted press of any button
Debounce_AnyButton ==
    /\ frames # <<>>
    /\ Top.pc = "debounce"
    /\ IF \E p \in DOMAIN last_ticks : Bounced(Top.ticks, last_ticks[p])
       THEN /\ frames' = SetTop([Top EXCEPT !.pc = "top"])
            /\ log' = Append(log, [t |-> Top.ticks, pin |-> Top.pin,
                                   verdict |-> "bounce"])
            /\ UNCHANGED last_ticks
       ELSE /\ frames' = SetTop([Top EXCEPT !.pc = "lookup"])
            /\ log' = Append(log, [t |-> Top.ticks, pin |-> Top.pin,
                                   verdict |-> "accept"])
            /\ last_ticks' = (Top.pin :> Top.ticks) @@ last_ticks
    /\ UNCHANGED <<card, show_qr, clock, epoch, irq_enabled, queue,
                   queue_pos, handlers, sched, regops, attempts, drained,
                   calls>>

\* a debounce whose discarded events go on to the handler lookup
Debounce_CallsBounced ==
    /\ frames # <<>>
    /\ Top.pc = "debounce"
    /\ frames' = SetTop([Top EXCEPT !.pc = "lookup"])
    /\ IF Top.pin \in DOMAIN last_ticks
          /\ Bounced(Top.ticks, last_ticks[Top.pin])
       THEN /\ log' = Append(log, [t |-> Top.ticks, pin |-> Top.pin,
                                   verdict |-> "bounce"])
            /\ UNCHANGED last_ticks
       ELSE /\ log' = Append(log, [t |-> Top.ticks, pin |-> Top.pin,
                                   verdict |-> "accept"])
            /\ last_ticks' = (Top.pin :> Top.ticks) @@ last_ticks
    /\ UNCHANGED <<card, show_qr, clock, epoch, irq_enabled, queue,
                   queue_pos, handlers, sched, regops, attempts, drained,
                   calls>>

\* a debounce that records the ticks of every event, discarded or not
Debounce_RecordsEvery ==
    /\ frames # <<>>
    /\ Top.pc = "debounce"
    /\ IF Top.pin \in DOMAIN last_ticks /\ Bounced(Top.ticks, last_ticks[Top.pin])
       THEN /\ frames' = SetTop([Top EXCEPT !.pc = "top"])
            /\ log' = Append(log, [t |-> Top.ticks, pin |-> Top.pin,
                                   verdict |-> "bounce"])
       ELSE /\ frames' = SetTop([Top EXCEPT !.pc = "lookup"])
            /\ log' = Append(log, [t |-> Top.ticks, pin |-> Top.pin,
                                   verdict |-> "accept"])
    /\ last_ticks' = (Top.pin :> Top.ticks) @@ last_ticks
    /\ UNCHANGED <<card, show_qr, clock, epoch, irq_enabled, queue,
                   queue_pos, handlers, sched, regops, attempts, drained,
                   calls>>

\* dispatch: the second try block and `last_ticks[pin] = ticks`
Debounce ==
    /\ frames # <<>>
    /\ Top.pc = "debounce"
    /\ IF Top.pin \in DOMAIN last_ticks /\ Bounced(Top.ticks, last_ticks[Top.pin])
       THEN /\ frames' = SetTop([Top EXCEPT !.pc = "top"])
            /\ log' = Append(log, [t |-> Top.ticks, pin |-> Top.pin,
                                   verdict |-> "bounce"])
            /\ UNCHANGED last_ticks
       ELSE /\ frames' = SetTop([Top EXCEPT !.pc = "lookup"])
            /\ log' = Append(log, [t |-> Top.ticks, pin |-> Top.pin,
                                   verdict |-> "accept"])
            /\ last_ticks' = (Top.pin :> Top.ticks) @@ last_ticks
    /\ UNCHANGED <<card, show_qr, clock, epoch, irq_enabled, queue,
                   queue_pos, handlers, sched, regops, attempts, drained,
                   calls>>

\* a lookup in the registry as it was when main() had filled it
Lookup_InitialRegistry ==
    /\ frames # <<>>
    /\ Top.pc = "lookup"
    /\ IF Top.pin \in DOMAIN MainHandlers
       THEN /\ frames' = SetTop([Top EXCEPT !.pc = "handler",
                                            !.handler = MainHandlers[Top.pin]])
            /\ calls' = Append(calls, [ev |-> Len(log), pin |-> Top.pin,
                                       h |-> MainHandlers[Top.pin],
                                       irq |-> irq_enabled])
       ELSE /\ frames' = SetTop([Top EXCEPT !.pc = "top"])
            /\ UNCHANGED calls
    /\ UNCHANGED <<card, show_qr, clock, epoch, irq_enabled, queue,
                   queue_pos, last_ticks, handlers, sched, regops, attempts,
                   drained, log>>

\* a lookup whose KeyError is not caught and ends the run of dispatch
Lookup_Raises ==
    /\ frames # <<>>
    /\ Top.pc = "lookup"
    /\ IF Top.pin \in DOMAIN handlers
       THEN /\ frames' = SetTop([Top EXCEPT !.pc = "handler",
                                            !.handler = handlers[Top.pin]])
            /\ calls' = Append(calls, [ev |-> Len(log), pin |-> Top.pin,
                                       h |-> handlers[Top.pin],
                                       irq |-> irq_enabled])
       ELSE /\ frames' = SetTop([Top EXCEPT !.pc = "exit"])
            /\ UNCHANGED calls
    /\ UNCHANGED <<card, show_qr, clock, epoch, irq_enabled, queue,
                   queue_pos, last_ticks, handlers, sched, regops, attempts,
                   drained, log>>

\* dispatch: the third try block, up to the call of the handler
Lookup ==
    /\ frames # <<>>
    /\ Top.pc = "lookup"
    /\ IF Top.pin \in DOMAIN handlers
       THEN /\ frames' = SetTop([Top EXCEPT !.pc = "handler",
                                            !.handler = handlers[Top.pin]])
            /\ calls' = Append(calls, [ev |-> Len(log), pin |-> Top.pin,
                                       h |-> handlers[Top.pin],
                                       irq |-> irq_enabled])
       ELSE /\ frames' = SetTop([Top EXCEPT !.pc = "top"])
            /\ UNCHANGED calls
    /\ UNCHANGED <<card, show_qr, clock, epoch, irq_enabled, queue,
                   queue_pos, last_ticks, handlers, sched, regops, attempts,
                   drained, log>>

\* the handler called by dispatch runs (prior_card, next_card, toggle_qr
\* or clean of main()) and returns
HandlerReturn ==
    /\ frames # <<>>
    /\ Top.pc = "handler"
    /\ card' = CardAfter(Top.handler, card)
    /\ show_qr' = ShowQrAfter(Top.handler, show_qr)
    /\ frames' = SetTop([Top EXCEPT !.pc = "top"])
    /\ UNCHANGED <<clock, epoch, irq_enabled, queue, queue_pos, last_ticks,
                   handlers, sched, regops, attempts, drained, log, calls>>

\* Code of the main context outside dispatch: the program when no dispatch
\* is running, or the handler that dispatch is calling.
MainCode == IF frames = <<>> THEN TRUE ELSE Top.pc = "handler"

\* BadgeButtons.__setitem__
SetItem(key, value) ==
    /\ MainCode
    /\ regops < MaxRegistryOps
    /\ handlers' = (key :> value) @@ handlers
    /\ regops' = regops + 1
    /\ UNCHANGED <<card, show_qr, clock, epoch, irq_enabled, queue,
                   queue_pos, last_ticks, sched, frames, attempts, drained,
                   log, calls>>

\* BadgeButtons.__delitem__ (of a key that is present)
DelItem(key) ==
    /\ MainCode
    /\ regops < MaxRegistryOps
    /\ key \in DOMAIN handlers
    /\ handlers' = [k \in DOMAIN handlers \ {key} |-> handlers[k]]
    /\ regops' = regops + 1
    /\ UNCHANGED <<card, show_qr, clock, epoch, irq_enabled, queue,
                   queue_pos, last_ticks, sched, frames, attempts, drained,
                   log, calls>>

\* The steps of the main context that the VM keeps taking
MainStep ==
    \/ RunScheduled
    \/ DisableIrq
    \/ CheckEmpty
    \/ ReadHead
    \/ Shift
    \/ Decrement
    \/ EnableIrq
    \/ Return
    \/ Debounce
    \/ Lookup
    \/ HandlerReturn

\* One step of the system, the buttons in Pins being pressed at most N
\* times, Ds milliseconds after the last reading of the clock
Step(Pins, Ds, N) ==
    \/ \E pin \in Pins, d \in Ds : Len(attempts) < N /\ pressed(pin, d)
    \/ MainStep

\* Queue and scheduling: two buttons (one with a handler, one without),
\* pressed at the same and at later ticks, after main() has registered its
\* handlers
Next == Step(QueuePins, QueueDeltas, MaxPresses)

Spec == Init(QueueClocks, MainHandlers) /\ [][Next]_vars

\* Wake-ups: more presses, of the button with a handler, so that the
\* scheduler's list fills up, with the main context running on and every
\* handler returning
NextWake == Step(WakePins, WakeDeltas, MaxWakePresses)

SpecWake == Init(QueueClocks, MainHandlers) /\ [][NextWake]_vars

SpecLive == SpecWake /\ WF_vars(MainStep)

\* Debounce: one button, pressed across the bounce window, half the ticks
\* period and the wrap of the counter
NextTime == Step(TimePins, TimeDeltas, MaxPresses)

SpecTime == Init(TimeClocks, MainHandlers) /\ [][NextTime]_vars

\* Registry: the application assigns and deletes handlers while buttons
\* are pressed, after main() has registered its handlers
NextRegistry ==
    \/ Step(RegistryPins, RegistryDeltas, MaxPresses)
    \/ \E key \in RegistryKeys, value \in HandlerIds : SetItem(key, value)
    \/ \E key \in RegistryKeys : DelItem(key)

SpecRegistry == Init(QueueClocks, MainHandlers) /\ [][NextRegistry]_vars

\* Application: the four buttons with a handler, pressed far enough apart
\* for every press to be accepted
NextApp == Step(AppPins, AppDeltas, MaxAppPresses)

SpecApp == Init(QueueClocks, MainHandlers) /\ [][NextApp]_vars

\* ------------------------------------------------------------------------
\* Queue
\* ------------------------------------------------------------------------
\* C1: under every interleaving of pressed with dispatch, the entries
\* removed by dispatch are a prefix of the successfully pushed entries
\* (oldest first, none twice), and outside the three statements of a pop
\* the pushed entries are exactly the drained ones followed by the live
\* queue content (none skipped).
C1_DrainedPrefixOfPushed ==
    /\ Len(drained) <= Len(pushed)
    /\ \A i \in 1..Len(drained) : drained[i] = pushed[i]
    /\ ~InPop => pushed = drained \o QueueEntries

\* dispatch popped the first entry and called its handler, two presses
\* landed during that run (the run of the first entry is the first run,
\* and the presses came after it started), and dispatch has gone on to pop
\* the first of them
C1_Witness ==
    /\ Len(attempts) = 3
    /\ \A i \in 1..3 : attempts[i].ok
    /\ attempts[1].before /\ ~attempts[2].before /\ ~attempts[3].before
    /\ Len(calls) >= 1 /\ calls[1].ev = 1
    /\ Len(drained) = 2
    /\ QueueEntries = <<pushed[3]>>
    /\ sched = 2

\* C2: at most queue_len calls of pressed made before any dispatch runs
\* all succeed and fill the queue in order; the dispatch that follows pops
\* exactly these (ticks, pin) pairs, in push order, and then finds the
\* queue empty.
C2_FifoWithinCapacity ==
    /\ (~Started /\ Len(attempts) <= queue_len) =>
          /\ \A i \in 1..Len(attempts) : attempts[i].ok
          /\ queue_pos = 2 * Len(attempts)
          /\ QueueEntries = AttemptEntries
    /\ (AllBeforeDrain /\ Len(attempts) <= queue_len /\ ReportedEmpty) =>
          /\ drained = AttemptEntries
          /\ queue_pos = 0

\* queue_len presses, then one dispatch that popped them all
C2_Witness ==
    /\ AllBeforeDrain
    /\ Len(attempts) = queue_len
    /\ ReportedEmpty
    /\ Len(drained) = queue_len
    /\ \E i, j \in 1..Len(drained) : drained[i] # drained[j]

\* C3: queue_pos is always even and within 0 .. 2 * queue_len, so the
\* number of live entries is within 0 .. queue_len.
C3_QueuePosInRange ==
    /\ Len(queue) = 2 * queue_len
    /\ queue_pos \in 0..(2 * queue_len)
    /\ queue_pos % 2 = 0
    /\ Len(QueueEntries) \in 0..queue_len

\* the queue is full again after dispatch has popped an entry, and a press
\* has been refused
C3_Witness ==
    /\ queue_pos = 2 * queue_len
    /\ Len(drained) >= 1
    /\ \E i \in 1..Len(attempts) : ~attempts[i].ok

\* C4: a call of pressed made when the queue holds queue_len entries
\* changes neither the queue nor queue_pos and schedules no dispatch, and
\* the entries popped later are still the pushed ones in push order.
C4_FullPushDropped ==
    /\ [][(Len(attempts') = Len(attempts) + 1 /\ queue_pos = 2 * queue_len) =>
            /\ ~attempts'[Len(attempts')].ok
            /\ queue' = queue
            /\ queue_pos' = queue_pos
            /\ sched' = sched
            /\ drained' = drained]_vars
    /\ [](\A i \in 1..Len(drained) :
             i <= Len(pushed) /\ drained[i] = pushed[i])

\* queue_len presses filled the queue, one more was dropped, and dispatch
\* has popped exactly the first queue_len
C4_Witness ==
    /\ Len(attempts) = queue_len + 1
    /\ \A i \in 1..queue_len : attempts[i].ok /\ attempts[i].before
    /\ ~attempts[queue_len + 1].ok
    /\ drained = SubSeq(AttemptEntries, 1, queue_len)
    /\ queue_pos = 0
    /\ frames = <<>>

\* ------------------------------------------------------------------------
\* Debounce
\* ------------------------------------------------------------------------
\* C5: an event whose wrap-safe difference to the last accepted event of
\* the same button is less than bounce_ms is discarded: no handler is
\* called for it, and last_ticks of the button stays at the accepted
\* event's ticks.
C5_BounceDiscarded ==
    \A i \in 1..Len(log) :
        LET j == PrevAccepted(i)
        IN  (j > 0 /\ ticks_diff(log[i].t, log[j].t) < bounce_ms) =>
                /\ log[i].verdict = "bounce"
                /\ i \notin CalledEvents
                /\ i = Len(log) => last_ticks[log[i].pin] = log[j].t

\* an event 10 ms after an accepted one was discarded, and the handler had
\* been called for the accepted one
C5_Witness ==
    /\ Len(log) >= 2
    /\ log[1].verdict = "accept"
    /\ log[2].verdict = "bounce"
    /\ log[2].pin = log[1].pin
    /\ ticks_diff(log[2].t, log[1].t) = 10
    /\ 1 \in CalledEvents

\* C6: of two consecutive events of the same button that are at least
\* bounce_ms of real time apart, the first having been accepted, the second
\* is accepted too, however long the time between them.
C6_AcceptedWhenElapsed ==
    \A i \in 1..Len(log) :
        LET j == PrevEvent(i)
        IN  (j > 0 /\ log[j].verdict = "accept"
                   /\ ElapsedAtLeast(j, i, bounce_ms)) =>
                log[i].verdict = "accept"

\* C7: when the counter wraps between the last accepted event of a button
\* (read near the maximum) and the next event of that button (read near
\* zero), ticks_diff gives the real elapsed time and the event is discarded
\* exactly when that time is less than bounce_ms.
C7_WrapSafeElapsed ==
    \A i \in 1..Len(log) :
        LET j == PrevAccepted(i)
        IN  (j > 0 /\ WrappedBetween(j, i)) =>
                /\ log[j].t > log[i].t
                /\ ticks_diff(log[i].t, log[j].t) = ElapsedAcrossWrap(j, i)
                /\ log[i].verdict = "bounce" <=>
                       ElapsedAcrossWrap(j, i) < bounce_ms

\* accepted 10 ms before the wrap, discarded right at the wrap, accepted
\* again 260 ms after the first
C7_Witness ==
    /\ Len(log) = 3
    /\ log[1].t = TICKS_PERIOD - 10 /\ log[1].verdict = "accept"
    /\ log[2].t = 0 /\ log[2].verdict = "bounce"
    /\ log[3].t = 250 /\ log[3].verdict = "accept"
    /\ okAttempts[2].epoch = okAttempts[1].epoch + 1

\* the presses were of one button at ticks 0, 10 and 300 of one period,
\* and dispatch has decided on all three
Scenario_0_10_300 ==
    /\ Len(attempts) = 3
    /\ \A i \in 1..3 : attempts[i].ok /\ attempts[i].pin = attempts[1].pin
                                      /\ attempts[i].epoch = attempts[1].epoch
    /\ attempts[1].t = 0 /\ attempts[2].t = 10 /\ attempts[3].t = 300
    /\ Len(log) = 3
    /\ frames = <<>>

\* C8: the first event of a button is accepted; last_ticks of a button is
\* always the ticks of its last accepted event, so a discarded event never
\* becomes the reference; and presses of one button at 0, 10 and 300 are
\* accepted, discarded, accepted, leave last_ticks at 300 and, the button
\* having a handler throughout, call it exactly twice.
C8_ReferenceIsLastAccepted ==
    /\ \A i \in 1..Len(log) : PrevEvent(i) = 0 => log[i].verdict = "accept"
    /\ \A p \in BUTTONS :
          IF LastAcceptedTicks(p) = NoValue
          THEN p \notin DOMAIN last_ticks
          ELSE p \in DOMAIN last_ticks /\ last_ticks[p] = LastAcceptedTicks(p)
    /\ Scenario_0_10_300 =>
          /\ log[1].verdict = "accept"
          /\ log[2].verdict = "bounce"
          /\ log[3].verdict = "accept"
          /\ last_ticks[attempts[1].pin] = 300
          /\ (regops = 0 /\ attempts[1].pin \in DOMAIN handlers) =>
                 /\ Len(calls) = 2
                 /\ calls[1].ev = 1 /\ calls[2].ev = 3
                 /\ \A c \in 1..2 : calls[c].pin = attempts[1].pin

\* the scenario has run for a button with a handler
C8_Witness ==
    /\ Scenario_0_10_300
    /\ attempts[1].pin \in DOMAIN handlers
    /\ Len(calls) = 2

\* ------------------------------------------------------------------------
\* Scheduling
\* ------------------------------------------------------------------------
\* C9: every successfully pushed entry is eventually popped by dispatch,
\* wherever the press landed, given that the main context keeps running
\* and handlers return.
C9_EveryPushDrained ==
    \A n \in 1..MaxWakePresses : (Len(pushed) >= n) ~> (Len(drained) >= n)

\* dispatch has found the queue empty and not yet returned, and a press
\* has landed since: its entry waits in the queue for the run that it
\* requested; earlier the scheduler had refused the request of a press
C9_Witness ==
    /\ frames # <<>>
    /\ Top.pc = "exit"
    /\ queue_pos > 0
    /\ sched > 0
    /\ \E i \in 1..Len(attempts) : attempts[i].ok /\ attempts[i].refused

\* C10: at most one activation of dispatch is in progress at any time, and
\* a run of dispatch that finds the queue empty has popped every entry
\* pushed so far, whatever the number of requests that were pending.
C10_OneRunDrainsAll ==
    /\ Len(frames) <= 1
    /\ (ReportedEmpty /\ Top.pc = "finally") =>
          /\ drained = pushed
          /\ queue_pos = 0

\* two presses requested two dispatches before the first ran; the first
\* run popped both entries and the second request is still pending
C10_Witness ==
    /\ Len(attempts) = 2
    /\ attempts[1].before /\ attempts[2].before
    /\ ReportedEmpty
    /\ Len(drained) >= 2
    /\ sched >= 1

\* ------------------------------------------------------------------------
\* Contexts and critical section
\* ------------------------------------------------------------------------
\* a dispatch is running and its position is one of S
DispatchAt(S) == IF frames = <<>> THEN FALSE ELSE Top.pc \in S

\* the running dispatch is between disable_irq and enable_irq
InCritical == DispatchAt({"try", "read", "shift", "dec", "finally"})

\* the step is a call of pressed
PressedStep == Len(attempts') = Len(attempts) + 1

\* the step changes the shared bookkeeping of the queue
QueueWritten == queue' # queue \/ queue_pos' # queue_pos

\* C11 as stated: every access to queue_pos and the slots, by pressed and
\* by dispatch, is made with the interrupts disabled, and the timestamp
\* read, the debounce comparison and the handler call are made with the
\* interrupts enabled.
C11_AllAccessInCriticalSection ==
    /\ [][QueueWritten => ~irq_enabled]_vars
    /\ [][PressedStep => irq_enabled]_vars
    /\ [](InCritical => ~irq_enabled)
    /\ [](DispatchAt({"debounce", "lookup", "handler"}) => irq_enabled)

\* C11 amended: dispatch accesses queue_pos and the slots only between
\* disable_irq and enable_irq, a section that holds the emptiness test and
\* the pop only, the debounce comparison, the write of last_ticks and the
\* handler call being made with the interrupts enabled; pressed disables
\* nothing itself: it is entered only while the interrupts are enabled,
\* never inside that section, and reads the timestamp and pushes in one
\* run that the main context cannot interleave with.
C11_QueueAccessExcluded ==
    /\ [][QueueWritten =>
            \/ PressedStep /\ irq_enabled /\ ~InCritical /\ frames' = frames
            \/ ~PressedStep /\ ~irq_enabled /\ InPop]_vars
    /\ [][PressedStep => irq_enabled /\ ~InCritical]_vars
    /\ [](InCritical => ~irq_enabled)
    /\ [](DispatchAt({"top", "debounce", "lookup", "handler", "exit"}) =>
             irq_enabled)

\* a handler is running with the interrupts enabled after a pop, and an
\* entry pushed since dispatch started waits in the queue
C11_Witness ==
    /\ DispatchAt({"handler"})
    /\ irq_enabled
    /\ Len(drained) >= 1
    /\ queue_pos > 0
    /\ \E i \in 1..Len(attempts) : attempts[i].ok /\ ~attempts[i].before

\* the step calls a handler
HandlerCalled == Len(calls') = Len(calls) + 1

\* C12: a handler is called only by a step of dispatch, in the main
\* context, never by pressed, and only for an event that the debounce
\* accepted; the interrupts are enabled when it is called and while it
\* runs, so that pressed can still push.
C12_HandlerCalledByDispatch ==
    /\ [][Len(calls') # Len(calls) =>
            /\ HandlerCalled
            /\ ~PressedStep
            /\ DispatchAt({"lookup"})
            /\ irq_enabled /\ irq_enabled']_vars
    /\ [][PressedStep =>
            calls' = calls /\ card' = card /\ show_qr' = show_qr]_vars
    /\ [](\A c \in 1..Len(calls) :
             /\ calls[c].irq
             /\ calls[c].ev \in 1..Len(log)
             /\ log[calls[c].ev].verdict = "accept"
             /\ log[calls[c].ev].pin = calls[c].pin)
    /\ [](DispatchAt({"handler"}) => irq_enabled)

\* the handler of the first event is running, the only call so far, and
\* the two presses made since dispatch started have filled the queue
C12_Witness ==
    /\ DispatchAt({"handler"})
    /\ Len(calls) = 1
    /\ calls[1].ev = 1 /\ calls[1].irq
    /\ Len(attempts) = 3
    /\ attempts[1].before /\ ~attempts[2].before /\ ~attempts[3].before
    /\ queue_pos = 2 * queue_len

\* ------------------------------------------------------------------------
\* Registry
\* ------------------------------------------------------------------------
\* the step is made by dispatch standing at one of the positions S
DispatchStepAt(S) == DispatchAt(S) /\ ~PressedStep /\ frames' # frames

\* the entries of the dict d for the keys other than p are unchanged
OthersUnchanged(d, e, p) ==
    \A q \in BUTTONS \ {p} :
        /\ q \in DOMAIN e <=> q \in DOMAIN d
        /\ q \in DOMAIN d => e[q] = d[q]

\* C13: an accepted event of a button without a handler (never
\* registered, or deleted since the last event of the button) calls no
\* handler and changes neither the registry, nor last_ticks, nor the
\* application's state, and dispatch goes back to the top of its loop; the
\* debounce of the event changed at most last_ticks of its own button,
\* which is the ticks of the button's last accepted event, handler or not.
C13_NoHandlerIgnored ==
    /\ [][(DispatchStepAt({"lookup"}) /\ Top.pin \notin DOMAIN handlers) =>
            /\ calls' = calls
            /\ handlers' = handlers
            /\ last_ticks' = last_ticks
            /\ card' = card /\ show_qr' = show_qr
            /\ queue' = queue /\ queue_pos' = queue_pos
            /\ Len(frames') = Len(frames)
            /\ frames'[Len(frames')].pc = "top"]_vars
    /\ [][DispatchStepAt({"debounce"}) =>
            /\ handlers' = handlers
            /\ OthersUnchanged(last_ticks, last_ticks', Top.pin)]_vars
    /\ [](\A p \in BUTTONS :
             IF LastAcceptedTicks(p) = NoValue
             THEN p \notin DOMAIN last_ticks
             ELSE p \in DOMAIN last_ticks
                  /\ last_ticks[p] = LastAcceptedTicks(p))

\* BUTTON_B was pressed and its handler called, BUTTON_A (never
\* registered) was pressed, the handler of BUTTON_B was deleted and
\* BUTTON_B pressed again: the last two events were accepted without a
\* call and dispatch has returned
C13_Witness ==
    /\ Len(log) = 3
    /\ frames = <<>>
    /\ log[1].pin = BUTTON_B /\ 1 \in CalledEvents
    /\ log[2].pin = BUTTON_A /\ log[2].verdict = "accept"
    /\ log[3].pin = BUTTON_B /\ log[3].verdict = "accept"
    /\ CalledEvents = {1}
    /\ BUTTON_B \notin DOMAIN handlers
    /\ last_ticks[BUTTON_A] = log[2].t
    /\ last_ticks[BUTTON_B] = log[3].t
    /\ log[3].t # log[1].t

\* ------------------------------------------------------------------------
\* Termination
\* ------------------------------------------------------------------------
\* C14: with handlers that return and the presses of a behaviour being
\* finitely many, every run of dispatch returns; a run decides to leave
\* its loop only at the emptiness test, having read queue_pos = 0 with the
\* interrupts disabled, and returns only after that decision.
C14_DispatchTerminates ==
    /\ (frames # <<>>) ~> (frames = <<>>)
    /\ [][(~ReportedEmpty /\ ReportedEmpty') =>
            /\ DispatchStepAt({"try"})
            /\ queue_pos = 0
            /\ ~irq_enabled]_vars
    /\ [][Len(frames') < Len(frames) => ReportedEmpty]_vars
    /\ [](DispatchAt({"exit"}) => ReportedEmpty)

\* a run that popped several entries and called the handler twice, one of
\* the entries pushed after it started, has left its loop
C14_Witness ==
    /\ DispatchAt({"exit"})
    /\ Len(drained) >= 3
    /\ Len(calls) >= 2
    /\ AllBeforeDrain = FALSE
    /\ sched = 0
    /\ queue_pos = 0

\* C15: the handler called for an event is the registry's entry for its
\* pin at the lookup that follows its pop and debounce, whatever the
\* registry held when the event was pushed: an entry present then is
\* called, an absent one is not; an assignment or deletion made while a
\* handler runs changes nothing of the running call, whose handler still
\* runs to its end, and the next lookups read the changed registry.
C15_HandlerAtDrainTime ==
    /\ [][HandlerCalled =>
            /\ DispatchStepAt({"lookup"})
            /\ Top.pin \in DOMAIN handlers
            /\ calls'[Len(calls')].h = handlers[Top.pin]
            /\ calls'[Len(calls')].pin = Top.pin]_vars
    /\ [][(DispatchStepAt({"lookup"}) /\ Top.pin \in DOMAIN handlers) =>
            HandlerCalled]_vars
    /\ [][(DispatchAt({"handler"}) /\ handlers' # handlers) =>
            /\ frames' = frames
            /\ calls' = calls
            /\ card' = card /\ show_qr' = show_qr]_vars
    /\ [][DispatchStepAt({"handler"}) =>
            /\ card' = CardAfter(calls[Len(calls)].h, card)
            /\ show_qr' = ShowQrAfter(calls[Len(calls)].h, show_qr)]_vars

\* two presses of BUTTON_B were queued before dispatch started; the run
\* called toggle_qr for the first and, the entry having been replaced
\* while toggle_qr ran, clean for the second: toggle_qr has had its effect
C15_Witness ==
    /\ Len(calls) = 2
    /\ calls[1].pin = BUTTON_B /\ calls[1].h = "toggle_qr"
    /\ calls[2].pin = BUTTON_B /\ calls[2].h = "clean"
    /\ attempts[1].before /\ attempts[2].before
    /\ attempts[1].pin = BUTTON_B /\ attempts[2].pin = BUTTON_B
    /\ show_qr
    /\ frames = <<>>

\* ------------------------------------------------------------------------
\* Debounce state
\* ------------------------------------------------------------------------
\* an event of another button than log[i]'s was accepted before it, less
\* than bounce_ms before
OtherAcceptedWithinBounce(i) ==
    \E j \in 1..(i - 1) :
        /\ log[j].pin # log[i].pin
        /\ log[j].verdict = "accept"
        /\ ticks_diff(log[i].t, log[j].t) < bounce_ms

\* C16: last_ticks changes only in the debounce step of dispatch, never in
\* pressed, and only at the pin of the event being decided, to the ticks
\* of that event; an event that its own button's last accepted event does
\* not make a bounce (there is none, or it is bounce_ms or more before) is
\* accepted also when an event of another button was accepted less than
\* bounce_ms before.
C16_DebouncePerButton ==
    /\ [][last_ticks' # last_ticks =>
            /\ DispatchStepAt({"debounce"})
            /\ OthersUnchanged(last_ticks, last_ticks', Top.pin)
            /\ last_ticks'[Top.pin] = Top.ticks]_vars
    /\ [][PressedStep => last_ticks' = last_ticks]_vars
    /\ [](\A i \in 1..Len(log) :
             LET j == PrevAccepted(i)
             IN  (/\ OtherAcceptedWithinBounce(i)
                  /\ IF j = 0 THEN TRUE
                     ELSE ticks_diff(log[i].t, log[j].t) >= bounce_ms) =>
                     log[i].verdict = "accept")

\* BUTTON_A and then, 10 ms later, BUTTON_B were pressed and both
\* accepted, each with its own entry in last_ticks
C16_Witness ==
    /\ Len(log) >= 2
    /\ log[1].pin = BUTTON_A /\ log[1].verdict = "accept"
    /\ log[2].pin = BUTTON_B /\ log[2].verdict = "accept"
    /\ ticks_diff(log[2].t, log[1].t) = 10
    /\ last_ticks[BUTTON_A] = log[1].t
    /\ last_ticks[BUTTON_B] = log[2].t
    /\ 2 \in CalledEvents

\* ------------------------------------------------------------------------
\* Interrupt state
\* ------------------------------------------------------------------------
\* C17: every step that leaves the section between disable_irq and
\* enable_irq, after a pop as well as after the break on the empty queue,
\* sets the interrupt state to the one saved on entry, which is
\* "enabled"; the interrupts are enabled at the top of every iteration,
\* when dispatch returns and whenever no dispatch runs.
C17_IrqRestored ==
    /\ [][(InCritical /\ ~InCritical') =>
            /\ DispatchStepAt({"finally"})
            /\ irq_enabled' = Top.state
            /\ irq_enabled']_vars
    /\ [][Len(frames') < Len(frames) => irq_enabled /\ irq_enabled']_vars
    /\ [](DispatchAt({"top", "exit"}) => irq_enabled)
    /\ [](frames = <<>> => irq_enabled)

\* a run of dispatch popped an entry, found the queue empty and returned,
\* and a press made after that has pushed its entry
C17_Witness ==
    /\ frames = <<>>
    /\ irq_enabled
    /\ Len(drained) >= 1
    /\ Len(drained) = Len(log)
    /\ queue_pos > 0
    /\ attempts[Len(attempts)].ok
    /\ sched >= 1

\* ------------------------------------------------------------------------
\* Pending requests
\* ------------------------------------------------------------------------
\* C18: whenever the queue holds an entry and no dispatch is running, a
\* request to run dispatch is pending in the scheduler, whose list never
\* holds more than SchedDepth requests: a request that the full list
\* refused leaves the requests that fill it.
C18_PendingWhileQueued ==
    /\ sched \in 0..SchedDepth
    /\ (queue_pos > 0 /\ frames = <<>>) => sched >= 1
    /\ \A i \in 1..Len(attempts) :
          attempts[i].refused => attempts[i].ok /\ Len(attempts) > SchedDepth

\* a run of dispatch has returned leaving the scheduler's list full, and
\* the press made since has pushed its entry and had its request refused
C18_Witness ==
    /\ frames = <<>>
    /\ queue_pos > 0
    /\ Len(drained) >= 1
    /\ sched = SchedDepth
    /\ attempts[Len(attempts)].ok
    /\ attempts[Len(attempts)].refused

\* ------------------------------------------------------------------------
\* Application handlers
\* ------------------------------------------------------------------------
\* the handlers called so far, in order
CalledHandlers == [c \in 1..Len(calls) |-> calls[c].h]

\* C19: card is always an index of cards; card and show_qr change only
\* when a handler runs; prior_card and next_card move card by one place
\* round the list, each undoing the other, and leave show_qr False;
\* toggle_qr negates show_qr and keeps card; clean keeps both.
C19_CardIndexInRange ==
    /\ [](card \in 0..(len_cards - 1) /\ show_qr \in BOOLEAN)
    /\ [][(card' # card \/ show_qr' # show_qr) =>
            DispatchStepAt({"handler"})]_vars
    /\ [][DispatchStepAt({"handler"}) =>
            LET h == calls[Len(calls)].h
            IN  /\ h \in {"prior_card", "next_card", "toggle_qr", "clean"}
                /\ h = "prior_card" =>
                       /\ card' = IF card = 0 THEN len_cards - 1
                                  ELSE card - 1
                       /\ next_card(card') = card
                       /\ show_qr' = FALSE
                /\ h = "next_card" =>
                       /\ card' = IF card = len_cards - 1 THEN 0
                                  ELSE card + 1
                       /\ prior_card(card') = card
                       /\ show_qr' = FALSE
                /\ h = "toggle_qr" =>
                       card' = card /\ show_qr' = ~show_qr
                /\ h = "clean" =>
                       card' = card /\ show_qr' = show_qr]_vars

\* prior_card from the first card (to the last), toggle_qr, then
\* next_card: the first card is shown again, without its QR code
C19_Witness ==
    /\ CalledHandlers = <<"prior_card", "toggle_qr", "next_card">>
    /\ frames = <<>>
    /\ card = 0
    /\ show_qr = FALSE

====
